---------------------------- MODULE Spec2Model ----------------------------
(***************************************************************************)
(* Order book replica of src/main.rs: the two BTreeSet ledgers of          *)
(* Orderbook, evaluate / handle_snapshot / handle_update / render, and the *)
(* feed loop of handle_connection that drives them.                        *)
(*                                                                         *)
(* Numbers: prices and quantities are f64 in the source.  The model keeps  *)
(* them on a grid of ticks, one tick being 1e-8, so that SIGMA (1e-8) is   *)
(* one tick and every comparison against SIGMA in the source has a value   *)
(* below it, one equal to it and one above it.                             *)
(*                                                                         *)
(* Option<T>: None is the empty sequence, Some(x) is <<x>>.                *)
(***************************************************************************)
EXTENDS Integers, Sequences, FiniteSets

\* ---------------------------------------------------------------- bounds
MaxPrice == 3
MaxQty == 2
MaxPairs == 1
MaxEntries == 1
MaxSeqPairs == 2
MaxSeqEntries == 2

\* const SIGMA: f64 = 0.00000001, in ticks of 1e-8
SIGMA == 1

VARIABLES
    bids_heap,   \* Orderbook.bids_heap, ascending by price
    asks_heap,   \* Orderbook.asks_heap, ascending by price
    pc,          \* where the feed loop stands
    incoming,    \* Option: the item incoming_messages() yielded, being handled
    pre,         \* Option: the ledgers as they were when evaluate was entered
    printed,     \* Option: what render printed in this iteration
    logged       \* Option: the error! line of this iteration

vars == <<bids_heap, asks_heap, pc, incoming, pre, printed, logged>>

\* ---------------------------------------------------------------- Option
None == <<>>
Some(x) == <<x>>
IsSome(o) == Len(o) = 1
IsNone(o) == Len(o) = 0
Unwrap(o) == o[1]

\* ---------------------------------------------------------------- inputs
Prices == 1..MaxPrice
Qtys == 0..MaxQty

\* struct Entry { price, qty }
Entry == [price : Prices, qty : Qtys]

SeqsUpTo(S, n) == UNION {[1..k -> S] : k \in 0..n}

\* Option<Vec<Entry>>
SideLists == {None} \cup {Some(l) : l \in SeqsUpTo(Entry, MaxPairs)}

\* struct OrderbookEntry { symbol, bids, asks } (symbol is never read)
OrderbookEntry == [bids : SideLists, asks : SideLists]

\* Option<Vec<OrderbookEntry>>
Payloads == {None} \cup {Some(d) : d \in SeqsUpTo(OrderbookEntry, MaxEntries)}

TypeNames == {None, Some("snapshot"), Some("update"), Some("heartbeat")}
Channels == {None, Some("book"), Some("ticker")}

\* struct OrderbookMessage { data, type_name, channel }
OrderbookMessage == [data : Payloads, type_name : TypeNames, channel : Channels]

\* what one turn of incoming_messages() hands to the closure
Items ==
    {[kind |-> k, msg |-> None] : k \in {"RecvError", "NonText", "BadJson"}}
    \cup {[kind |-> "Record", msg |-> Some(m)] : m \in OrderbookMessage}

\* ------------------------------------------------------------- BTreeSet
\* f64::total_cmp on the price, as Ord for BidEntry / AskEntry uses it
Cmp(a, b) ==
    IF a.price < b.price THEN "Less"
    ELSE IF a.price > b.price THEN "Greater"
    ELSE "Equal"

\* an insert that stores the element even when an Equal one is stored
RECURSIVE InsertDup(_, _)
InsertDup(set, e) ==
    IF set = <<>> THEN <<e>>
    ELSE IF Cmp(e, Head(set)) = "Greater"
         THEN <<Head(set)>> \o InsertDup(Tail(set), e)
         ELSE <<e>> \o set

\* BTreeSet::insert: an element that compares Equal to a stored one is not
\* inserted and the stored element is kept as it is
RECURSIVE Insert(_, _)
Insert(set, e) ==
    IF set = <<>> THEN <<e>>
    ELSE CASE Cmp(e, Head(set)) = "Less" -> <<e>> \o set
           [] Cmp(e, Head(set)) = "Equal" -> set
           [] OTHER -> <<Head(set)>> \o Insert(Tail(set), e)

\* the retain closure with the operands of the subtraction exchanged
KeepSwapped(entry, x) == x.price - entry.price > SIGMA

\* the closure of retain in handle_update: |entry| entry.price - x.price > SIGMA
Keep(entry, x) == entry.price - x.price > SIGMA

\* BTreeSet::retain with that closure
RECURSIVE Retain(_, _)
Retain(set, x) ==
    IF set = <<>> THEN <<>>
    ELSE IF Keep(Head(set), x)
         THEN <<Head(set)>> \o Retain(Tail(set), x)
         ELSE Retain(Tail(set), x)

\* the pair applied with the removal test written as qty < 0
ApplyPairBelowZero(set, x) ==
    IF x.qty < 0
    THEN Retain(set, x)
    ELSE Insert(set, [price |-> x.price, qty |-> x.qty])

\* one pair of a side list applied to that side's ledger
ApplyPair(set, x) ==
    IF x.qty < SIGMA
    THEN Retain(set, x)
    ELSE Insert(set, [price |-> x.price, qty |-> x.qty])

\* a list application that works from the last pair back to the first
RECURSIVE ApplyListReversed(_, _)
ApplyListReversed(set, list) ==
    IF list = <<>> THEN set
    ELSE ApplyPair(ApplyListReversed(set, Tail(list)), Head(list))

\* bids.iter().for_each(...) / asks.iter().for_each(...)
RECURSIVE ApplyList(_, _)
ApplyList(set, list) ==
    IF list = <<>> THEN set
    ELSE ApplyList(ApplyPair(set, Head(list)), Tail(list))

\* a side application that takes an absent list as "no levels left"
ApplySideAbsentClears(set, side) ==
    IF IsSome(side) THEN ApplyList(set, Unwrap(side)) ELSE <<>>

\* match &entry.bids { Some(bids) => ..., _ => {} }
ApplySide(set, side) ==
    IF IsSome(side) THEN ApplyList(set, Unwrap(side)) ELSE set

\* the body of the for_each over message.data: bids, then asks
ApplyEntry(book, entry) ==
    [bids |-> ApplySide(book.bids, entry.bids),
     asks |-> ApplySide(book.asks, entry.asks)]

\* handle_update on a present data payload
RECURSIVE HandleUpdate(_, _)
HandleUpdate(book, data) ==
    IF data = <<>> THEN book
    ELSE HandleUpdate(ApplyEntry(book, Head(data)), Tail(data))

\* Orderbook::new, and the ledgers after clear()
EmptyBook == [bids |-> <<>>, asks |-> <<>>]

\* a snapshot that clears the bid ledger only
HandleSnapshotKeepsAsks(book, data) ==
    HandleUpdate([bids |-> <<>>, asks |-> book.asks], data)

\* handle_snapshot on a present data payload
HandleSnapshot(book, data) == HandleUpdate(EmptyBook, data)

\* whether evaluate reaches message.data.unwrap()
Dispatches(m) == m.type_name \in {Some("snapshot"), Some("update")}

\* whether evaluate panics: unwrap() of an absent data payload
Panics(m) == Dispatches(m) /\ IsNone(m.data)

\* an evaluate whose default arm applies the record as an update
EvaluateBookDefaultUpdate(book, m) ==
    IF m.type_name = Some("snapshot")
    THEN IF IsNone(m.data) THEN EmptyBook ELSE HandleSnapshot(book, Unwrap(m.data))
    ELSE IF IsNone(m.data) THEN book ELSE HandleUpdate(book, Unwrap(m.data))

\* the ledgers evaluate leaves behind (at the panic, when it panics)
EvaluateBook(book, m) ==
    IF m.type_name = Some("snapshot")
    THEN IF IsNone(m.data) THEN EmptyBook ELSE HandleSnapshot(book, Unwrap(m.data))
    ELSE IF m.type_name = Some("update")
    THEN IF IsNone(m.data) THEN book ELSE HandleUpdate(book, Unwrap(m.data))
    ELSE book

\* a render with the conventional reading: highest bid, lowest ask, each
\* with its own price
RenderOutConventional(bids, asks) ==
    IF bids # <<>> /\ asks # <<>>
    THEN Some([bid_price |-> bids[Len(bids)].price,
               bid_qty |-> bids[Len(bids)].qty,
               ask_price |-> asks[1].price,
               ask_qty |-> asks[1].qty])
    ELSE None

\* a render that prints as soon as the ask ledger is populated
RenderOutAskOnly(bids, asks) ==
    IF asks # <<>>
    THEN Some([bid_price |-> IF bids # <<>> THEN bids[1].price ELSE 0,
               bid_qty |-> IF bids # <<>> THEN bids[1].qty ELSE 0,
               ask_price |-> IF bids # <<>> THEN bids[1].price ELSE 0,
               ask_qty |-> asks[Len(asks)].qty])
    ELSE None

\* render: the values handed to print!, None when nothing is printed
RenderOut(bids, asks) ==
    IF bids # <<>> /\ asks # <<>>
    THEN Some([bid_price |-> bids[1].price,
               bid_qty |-> bids[1].qty,
               ask_price |-> bids[1].price,
               ask_qty |-> asks[Len(asks)].qty])
    ELSE None

\* ------------------------------------------------------------ feed loop
Book == [bids |-> bids_heap, asks |-> asks_heap]

Init ==
    /\ bids_heap = <<>>
    /\ asks_heap = <<>>
    /\ pc = "recv"
    /\ incoming = None
    /\ pre = None
    /\ printed = None
    /\ logged = None

\* incoming_messages() yields the next item
Receive ==
    /\ pc = "recv"
    /\ \E item \in Items : incoming' = Some(item)
    /\ pc' = "dispatch"
    /\ pre' = None
    /\ printed' = None
    /\ logged' = None
    /\ UNCHANGED <<bids_heap, asks_heap>>

\* a routing test that accepts every record that names a channel
RoutedAnyChannel(item) == item.kind = "Record" /\ IsSome(Unwrap(item.msg).channel)

\* match orderbook_message.channel.as_deref() { Some("book") => ..., _ => {} }
Routed(item) == item.kind = "Record" /\ Unwrap(item.msg).channel = Some("book")

\* Err(error) => error!("Error while receiving message: {}", error)
RecvError ==
    /\ pc = "dispatch"
    /\ Unwrap(incoming).kind = "RecvError"
    /\ logged' = Some("Error while receiving message")
    /\ pc' = "recv"
    /\ incoming' = None
    /\ UNCHANGED <<bids_heap, asks_heap, pre, printed>>

\* _ => error!("Unhandled message type")
NonText ==
    /\ pc = "dispatch"
    /\ Unwrap(incoming).kind = "NonText"
    /\ logged' = Some("Unhandled message type")
    /\ pc' = "recv"
    /\ incoming' = None
    /\ UNCHANGED <<bids_heap, asks_heap, pre, printed>>

\* Err(err) => error!("Error while parsing message: {}", err)
BadJson ==
    /\ pc = "dispatch"
    /\ Unwrap(incoming).kind = "BadJson"
    /\ logged' = Some("Error while parsing message")
    /\ pc' = "recv"
    /\ incoming' = None
    /\ UNCHANGED <<bids_heap, asks_heap, pre, printed>>

\* match orderbook_message.channel.as_deref() { ..., _ => {} }
Unrouted ==
    /\ pc = "dispatch"
    /\ Unwrap(incoming).kind = "Record"
    /\ ~Routed(Unwrap(incoming))
    /\ pc' = "skipped"
    /\ UNCHANGED <<bids_heap, asks_heap, incoming, pre, printed, logged>>

\* an evaluate that hands a snapshot to render once the ledgers are cleared,
\* before its levels are applied
EvaluateClearsOnly ==
    /\ pc = "dispatch"
    /\ Routed(Unwrap(incoming))
    /\ LET m == Unwrap(Unwrap(incoming).msg)
           after == IF m.type_name = Some("snapshot")
                    THEN EmptyBook
                    ELSE EvaluateBook(Book, m)
       IN /\ bids_heap' = after.bids
          /\ asks_heap' = after.asks
          /\ pc' = IF Panics(m) THEN "panicked" ELSE "render"
    /\ pre' = Some(Book)
    /\ UNCHANGED <<incoming, printed, logged>>

\* Some("book") => orderbook.evaluate(orderbook_message)
Evaluate ==
    /\ pc = "dispatch"
    /\ Routed(Unwrap(incoming))
    /\ LET m == Unwrap(Unwrap(incoming).msg)
           after == EvaluateBook(Book, m)
       IN /\ bids_heap' = after.bids
          /\ asks_heap' = after.asks
          /\ pc' = IF Panics(m) THEN "panicked" ELSE "render"
    /\ pre' = Some(Book)
    /\ UNCHANGED <<incoming, printed, logged>>

\* a render that takes the levels it prints out of the ledgers
RenderTakesLevels ==
    /\ pc = "render"
    /\ printed' = RenderOut(bids_heap, asks_heap)
    /\ pc' = "rendered"
    /\ bids_heap' = IF IsSome(RenderOut(bids_heap, asks_heap))
                    THEN Tail(bids_heap) ELSE bids_heap
    /\ asks_heap' = IF IsSome(RenderOut(bids_heap, asks_heap))
                    THEN SubSeq(asks_heap, 1, Len(asks_heap) - 1) ELSE asks_heap
    /\ UNCHANGED <<incoming, pre, logged>>

\* orderbook.render()
Render ==
    /\ pc = "render"
    /\ printed' = RenderOut(bids_heap, asks_heap)
    /\ pc' = "rendered"
    /\ UNCHANGED <<bids_heap, asks_heap, incoming, pre, logged>>

\* the closure returns and the record is dropped
Return ==
    /\ pc \in {"rendered", "skipped"}
    /\ pc' = "recv"
    /\ incoming' = None
    /\ pre' = None
    /\ UNCHANGED <<bids_heap, asks_heap, printed, logged>>

Next ==
    \/ Receive
    \/ RecvError
    \/ NonText
    \/ BadJson
    \/ Unrouted
    \/ Evaluate
    \/ Render
    \/ Return

Spec == Init /\ [][Next]_vars

\* ------------------------------------- feed loop on multi-pair updates
\* The same loop fed only with update records on the "book" channel whose
\* entries list several pairs: at most MaxSeqEntries entries, both lists
\* present, at most MaxSeqPairs pairs in the whole record.
EntriesUpTo(n) ==
    UNION {{[bids |-> Some(b), asks |-> Some(a)] :
               b \in [1..i -> Entry], a \in UNION {[1..j -> Entry] : j \in 0..(n - i)}} :
           i \in 0..n}

\* the data payloads of exactly k entries and at most n pairs
RECURSIVE DataOf(_, _)
DataOf(k, n) ==
    IF k = 0 THEN {<<>>}
    ELSE UNION {{<<e>> \o d :
                    d \in DataOf(k - 1, n - Len(Unwrap(e.bids)) - Len(Unwrap(e.asks)))} :
                e \in EntriesUpTo(n)}

SeqPayloads == UNION {DataOf(k, MaxSeqPairs) : k \in 0..MaxSeqEntries}

\* an update record on the "book" channel with the data payload d
UpdateRecord(d) ==
    [data |-> Some(d), type_name |-> Some("update"), channel |-> Some("book")]

\* incoming_messages() yields such a record
ReceiveUpdate ==
    /\ pc = "recv"
    /\ \E d \in SeqPayloads :
           incoming' = Some([kind |-> "Record", msg |-> Some(UpdateRecord(d))])
    /\ pc' = "dispatch"
    /\ pre' = None
    /\ printed' = None
    /\ logged' = None
    /\ UNCHANGED <<bids_heap, asks_heap>>

NextSeq ==
    \/ ReceiveUpdate
    \/ Evaluate
    \/ Render
    \/ Return

SpecSeq == Init /\ [][NextSeq]_vars


\* ------------------------------------------------- reading a state
\* the record evaluate was called with
Msg == Unwrap(Unwrap(incoming).msg)

\* evaluate has returned on the current record (render is next or done)
Applied == pc \in {"render", "rendered"}

\* the ledgers as they were when evaluate was entered
Before == Unwrap(pre)

\* the positions of a ledger that hold price p
LevelsAt(set, p) == {i \in DOMAIN set : set[i].price = p}

\* whether a ledger holds exactly the level (p, q)
Holds(set, p, q) == \E i \in DOMAIN set : set[i].price = p /\ set[i].qty = q

\* the current record is an update of one entry whose bid list is the pair x
SoleBidPair(x) ==
    /\ Applied
    /\ Msg.type_name = Some("update")
    /\ IsSome(Msg.data)
    /\ Len(Unwrap(Msg.data)) = 1
    /\ Unwrap(Msg.data)[1].bids = Some(<<x>>)

\* the current record is an update of one entry whose ask list is the pair x
SoleAskPair(x) ==
    /\ Applied
    /\ Msg.type_name = Some("update")
    /\ IsSome(Msg.data)
    /\ Len(Unwrap(Msg.data)) = 1
    /\ Unwrap(Msg.data)[1].asks = Some(<<x>>)

\* ------------------------------------------------------------------ C1
\* C1 (upsert): after an update pair (p, q) with q >= SIGMA on a side, that
\* side's ledger holds exactly one level at p and its quantity is q, whether
\* or not a level at p was stored before.
C1_Upsert ==
    \A x \in Entry :
        x.qty >= SIGMA =>
            /\ SoleBidPair(x) =>
                   /\ Cardinality(LevelsAt(bids_heap, x.price)) = 1
                   /\ Holds(bids_heap, x.price, x.qty)
            /\ SoleAskPair(x) =>
                   /\ Cardinality(LevelsAt(asks_heap, x.price)) = 1
                   /\ Holds(asks_heap, x.price, x.qty)

\* ------------------------------------------------------------------ C2
\* C2 (removal frame): after an update pair (p, q) with q < SIGMA on a side,
\* every level of that side stored before at a price other than p is still
\* stored with the same quantity.
C2_RemovalTouchesOnlyTarget ==
    \A x \in Entry :
        x.qty < SIGMA =>
            /\ SoleBidPair(x) =>
                   \A i \in DOMAIN Before.bids :
                       Before.bids[i].price # x.price =>
                           Holds(bids_heap, Before.bids[i].price, Before.bids[i].qty)
            /\ SoleAskPair(x) =>
                   \A i \in DOMAIN Before.asks :
                       Before.asks[i].price # x.price =>
                           Holds(asks_heap, Before.asks[i].price, Before.asks[i].qty)

\* ------------------------------------------------------------------ C3
\* C3 (removal on low quantity): after an update pair (p, q) with q < SIGMA
\* on a side, that side's ledger holds no level at p, and the render that
\* follows does not report price p for that side.
C3_RemovalOnLowQuantity ==
    \A x \in Entry :
        x.qty < SIGMA =>
            /\ SoleBidPair(x) =>
                   /\ LevelsAt(bids_heap, x.price) = {}
                   /\ (pc = "rendered" /\ IsSome(printed)) =>
                          Unwrap(printed).bid_price # x.price
            /\ SoleAskPair(x) =>
                   /\ LevelsAt(asks_heap, x.price) = {}
                   /\ (pc = "rendered" /\ IsSome(printed)) =>
                          Unwrap(printed).ask_price # x.price

\* ------------------------------------------------------------------ C4
\* whether the level lvl is one of the pairs the payload lists for the side
ListedBid(data, lvl) ==
    \E i \in DOMAIN data :
        /\ IsSome(data[i].bids)
        /\ \E k \in DOMAIN Unwrap(data[i].bids) : Unwrap(data[i].bids)[k] = lvl

ListedAsk(data, lvl) ==
    \E i \in DOMAIN data :
        /\ IsSome(data[i].asks)
        /\ \E k \in DOMAIN Unwrap(data[i].asks) : Unwrap(data[i].asks)[k] = lvl

\* C4 (snapshot replaces, not merges): after a snapshot record the book is
\* the book handle_update builds from the empty book on the same payload,
\* and every stored level is one the payload lists for its side, so no
\* level of the prior book survives unless the payload produces it.
C4_SnapshotReplaces ==
    (Applied /\ Msg.type_name = Some("snapshot")) =>
        /\ Book = HandleUpdate(EmptyBook, Unwrap(Msg.data))
        /\ \A i \in DOMAIN bids_heap : ListedBid(Unwrap(Msg.data), bids_heap[i])
        /\ \A i \in DOMAIN asks_heap : ListedAsk(Unwrap(Msg.data), asks_heap[i])

\* a snapshot applied to a book that held, on each side, a level the
\* snapshot does not list
C4_Witness ==
    /\ Applied
    /\ Msg.type_name = Some("snapshot")
    /\ \E i \in DOMAIN Before.bids : ~ListedBid(Unwrap(Msg.data), Before.bids[i])
    /\ \E i \in DOMAIN Before.asks : ~ListedAsk(Unwrap(Msg.data), Before.asks[i])
    /\ bids_heap # <<>>
    /\ asks_heap # <<>>

\* ------------------------------------------------------------------ C5
\* the stored level with the highest / the lowest price
Highest(set) == set[CHOOSE i \in DOMAIN set : \A j \in DOMAIN set : set[j].price <= set[i].price]
Lowest(set) == set[CHOOSE i \in DOMAIN set : \A j \in DOMAIN set : set[j].price >= set[i].price]

\* C5 (best bid / best ask): with both sides populated, render reports the
\* highest-priced bid level with its quantity and the lowest-priced ask
\* level with its price and quantity.
C5_BestBidBestAsk ==
    (pc = "rendered" /\ bids_heap # <<>> /\ asks_heap # <<>>) =>
        printed = Some([bid_price |-> Highest(bids_heap).price,
                        bid_qty |-> Highest(bids_heap).qty,
                        ask_price |-> Lowest(asks_heap).price,
                        ask_qty |-> Lowest(asks_heap).qty])

\* ------------------------------------------------------------------ C6
Unique(set) == \A i, j \in DOMAIN set : set[i].price = set[j].price => i = j

\* C6 (uniqueness): in every reachable state each ledger holds at most one
\* level per price.
C6_Uniqueness == Unique(bids_heap) /\ Unique(asks_heap)

\* a pair with a storable quantity was applied at a price already stored,
\* on a ledger of two or more levels
C6_Witness ==
    \E x \in Entry :
        /\ x.qty >= SIGMA
        /\ SoleBidPair(x)
        /\ LevelsAt(Before.bids, x.price) # {}
        /\ Len(bids_heap) >= 2

\* ------------------------------------------------------------------ C7
\* C7 as stated (quantity invariant): no stored level has quantity <= SIGMA.
C7_NoQuantityAtOrBelowSigma ==
    /\ \A i \in DOMAIN bids_heap : bids_heap[i].qty > SIGMA
    /\ \A i \in DOMAIN asks_heap : asks_heap[i].qty > SIGMA

\* C7 amended: no stored level has quantity < SIGMA; a pair whose quantity
\* is exactly SIGMA, at a price not stored before, is stored.
C7_NoQuantityBelowSigma ==
    /\ \A i \in DOMAIN bids_heap : bids_heap[i].qty >= SIGMA
    /\ \A i \in DOMAIN asks_heap : asks_heap[i].qty >= SIGMA
    /\ \A x \in Entry :
           x.qty = SIGMA =>
               /\ (SoleBidPair(x) /\ LevelsAt(Before.bids, x.price) = {}) =>
                      Holds(bids_heap, x.price, SIGMA)
               /\ (SoleAskPair(x) /\ LevelsAt(Before.asks, x.price) = {}) =>
                      Holds(asks_heap, x.price, SIGMA)

\* a pair of quantity exactly SIGMA was applied and is stored
C7_Witness ==
    \E x \in Entry :
        /\ x.qty = SIGMA
        /\ SoleAskPair(x)
        /\ LevelsAt(Before.asks, x.price) = {}
        /\ Holds(asks_heap, x.price, SIGMA)

\* ------------------------------------------------------------------ C8
\* C8 as stated (empty side): with one ledger empty and the other populated,
\* render still reports the populated side.
C8_ReportsPopulatedSide ==
    /\ (pc = "rendered" /\ bids_heap = <<>> /\ asks_heap # <<>>) =>
           /\ IsSome(printed)
           /\ \E i \in DOMAIN asks_heap : Unwrap(printed).ask_qty = asks_heap[i].qty
    /\ (pc = "rendered" /\ asks_heap = <<>> /\ bids_heap # <<>>) =>
           /\ IsSome(printed)
           /\ \E i \in DOMAIN bids_heap : Unwrap(printed).bid_qty = bids_heap[i].qty

\* C8 amended: with either ledger empty, render reports nothing, neither a
\* bid nor an ask.
C8_EmptySidePrintsNothing ==
    (pc = "rendered" /\ (bids_heap = <<>> \/ asks_heap = <<>>)) => printed = None

\* render has run on a book with asks stored and no bids
C8_Witness ==
    /\ pc = "rendered"
    /\ bids_heap = <<>>
    /\ Len(asks_heap) >= 2
    /\ printed = None

\* ------------------------------------------------------------------ C9
\* C9 (malformed record): evaluate on a snapshot or update record without a
\* data payload ends with an error reported to the feed loop, which is
\* still able to go on.
C9_MalformedRecordReported ==
    (IsSome(pre) /\ Panics(Msg)) => (pc # "panicked" /\ IsSome(logged))

\* ----------------------------------------------------------------- C10
\* C10 (unknown classification): evaluate on a record whose type_name is
\* absent or is neither "snapshot" nor "update" returns with both ledgers
\* as they were, whatever the data payload.
C10_UnknownTypeIsNoOp ==
    (IsSome(pre) /\ ~Dispatches(Msg)) => (Book = Before /\ pc # "panicked")

\* a heartbeat carrying a pair that an update would have stored, evaluated
\* on a populated book
C10_Witness ==
    /\ Applied
    /\ Msg.type_name = Some("heartbeat")
    /\ IsSome(Msg.data)
    /\ HandleUpdate(Before, Unwrap(Msg.data)) # Before
    /\ Before.bids # <<>>
    /\ Before.asks # <<>>

\* the same for a record with no type_name and no data payload
C10_WitnessAbsent ==
    /\ Applied
    /\ Msg.type_name = None
    /\ Msg.data = None
    /\ Before.bids # <<>>

\* ----------------------------------------------------------------- C11
\* evaluate was entered with an update record that carries a data payload
UpdateEvaluated ==
    /\ IsSome(pre)
    /\ Msg.type_name = Some("update")
    /\ IsSome(Msg.data)

NoBidList(data) == \A i \in DOMAIN data : data[i].bids = None
NoAskList(data) == \A i \in DOMAIN data : data[i].asks = None

\* C11 (absent side): an update whose entries carry no bid list leaves the
\* bid ledger as it was, whatever its ask pairs are; one whose entries carry
\* no ask list leaves the ask ledger as it was, whatever its bid pairs are;
\* with neither list the whole book is unchanged; none of these panics.
C11_AbsentSideUnchanged ==
    UpdateEvaluated =>
        /\ NoBidList(Unwrap(Msg.data)) => (bids_heap = Before.bids /\ pc # "panicked")
        /\ NoAskList(Unwrap(Msg.data)) => (asks_heap = Before.asks /\ pc # "panicked")

\* an update without a bid list changed the ask ledger of a book whose bid
\* ledger was populated
C11_Witness ==
    /\ UpdateEvaluated
    /\ Len(Unwrap(Msg.data)) = 1
    /\ NoBidList(Unwrap(Msg.data))
    /\ asks_heap # Before.asks
    /\ Before.bids # <<>>
    /\ bids_heap = Before.bids

\* an update entry with neither list, evaluated on a populated book
C11_WitnessNeither ==
    /\ UpdateEvaluated
    /\ Len(Unwrap(Msg.data)) = 1
    /\ NoBidList(Unwrap(Msg.data))
    /\ NoAskList(Unwrap(Msg.data))
    /\ Before.bids # <<>>
    /\ Before.asks # <<>>
    /\ pc = "rendered"

\* ----------------------------------------------------------------- C12
\* C12 (idempotence): after an update pair (p, q) with q >= SIGMA has been
\* applied, applying the same update record once more leaves both ledgers
\* as they are.
C12_UpsertIdempotent ==
    \A x \in Entry :
        (x.qty >= SIGMA /\ (SoleBidPair(x) \/ SoleAskPair(x))) =>
            EvaluateBook(Book, Msg) = Book

\* the first application of the pair changed the bid ledger, which already
\* held another level
C12_Witness ==
    \E x \in Entry :
        /\ x.qty >= SIGMA
        /\ SoleBidPair(x)
        /\ bids_heap # Before.bids
        /\ Before.bids # <<>>

\* ----------------------------------------------------------------- C13
\* C13 (no torn reads): a record is taken up only when the one before it is
\* done; whenever render is about to run or has run, evaluate has returned
\* and the ledgers are those of the record applied completely (for a
\* snapshot: cleared and rebuilt, both sides); what render printed is the
\* rendering of those ledgers.
C13_NoTornRead ==
    /\ pc = "dispatch" => (pre = None /\ printed = None)
    /\ Applied =>
           /\ IsSome(pre)
           /\ Book = EvaluateBook(Before, Msg)
    /\ pc = "rendered" => printed = RenderOut(bids_heap, asks_heap)
    /\ \A x, y \in Entry :
           ( /\ Applied
             /\ Msg.type_name = Some("snapshot")
             /\ Unwrap(Msg.data) = <<[bids |-> Some(<<x>>), asks |-> Some(<<y>>)]>>
             /\ x.qty >= SIGMA
             /\ y.qty >= SIGMA ) =>
               (bids_heap = <<x>> /\ asks_heap = <<y>>)

\* render has printed after a snapshot that lists a level on each side was
\* applied to a book populated on both sides
C13_Witness ==
    /\ pc = "rendered"
    /\ Msg.type_name = Some("snapshot")
    /\ Len(Unwrap(Msg.data)) = 1
    /\ Len(bids_heap) = 1
    /\ Len(asks_heap) = 1
    /\ Len(Before.bids) >= 2
    /\ Len(Before.asks) >= 2
    /\ IsSome(printed)

\* ----------------------------------------------------------------- C14
\* the item being handled is a decoded record whose channel is not "book"
OffChannel ==
    /\ IsSome(incoming)
    /\ Unwrap(incoming).kind = "Record"
    /\ Msg.channel # Some("book")

\* C14 (channel filtering): while a record whose channel is absent or is not
\* "book" is handled, evaluate is never entered and render never runs, and
\* the step that handles it leaves both ledgers as they are.
C14_OffChannelIgnored ==
    /\ [](OffChannel => (pc \in {"dispatch", "skipped"} /\ pre = None /\ printed = None))
    /\ [][(OffChannel /\ pc = "dispatch") =>
              (pc' = "skipped" /\ bids_heap' = bids_heap /\ asks_heap' = asks_heap)]_vars

\* a snapshot with data on another channel has been skipped, on a book the
\* snapshot would have changed
C14_Witness ==
    /\ pc = "skipped"
    /\ Msg.channel = Some("ticker")
    /\ Msg.type_name = Some("snapshot")
    /\ IsSome(Msg.data)
    /\ EvaluateBook(Book, Msg) # Book
    /\ bids_heap # <<>>
    /\ asks_heap # <<>>

\* an update with data and no channel has been skipped
C14_WitnessAbsent ==
    /\ pc = "skipped"
    /\ Msg.channel = None
    /\ Msg.type_name = Some("update")
    /\ IsSome(Msg.data)
    /\ EvaluateBook(Book, Msg) # Book

\* ----------------------------------------------------------------- C15
\* C15 (render is pure): the step in which render runs leaves both ledgers
\* as they are, whether or not it prints.
C15_RenderIsPure ==
    [][pc = "render" => (bids_heap' = bids_heap /\ asks_heap' = asks_heap)]_vars

\* render has printed from ledgers of two levels each, which still hold them
C15_Witness ==
    /\ pc = "rendered"
    /\ IsSome(printed)
    /\ Len(bids_heap) >= 2
    /\ Len(asks_heap) >= 2
    /\ Book = EvaluateBook(Before, Msg)

\* render has run without printing, on a populated bid ledger
C15_WitnessSilent ==
    /\ pc = "rendered"
    /\ printed = None
    /\ Len(bids_heap) >= 2

\* ----------------------------------------------------------------- C16
\* C16 (rendering as implemented): render prints exactly when both ledgers
\* are populated; the bid price and quantity are those of the lowest-priced
\* bid level, the ask quantity is that of the highest-priced ask level, and
\* the price printed for the ask is the bid level's price.
C16_RenderAsImplemented ==
    pc = "rendered" =>
        /\ IsSome(printed) <=> (bids_heap # <<>> /\ asks_heap # <<>>)
        /\ IsSome(printed) =>
               /\ Unwrap(printed).bid_price = Lowest(bids_heap).price
               /\ Unwrap(printed).bid_qty = Lowest(bids_heap).qty
               /\ Unwrap(printed).ask_price = Lowest(bids_heap).price
               /\ Unwrap(printed).ask_qty = Highest(asks_heap).qty

\* render has printed from ledgers whose lowest and highest levels differ in
\* price and quantity, the lowest ask being priced unlike the lowest bid
C16_Witness ==
    /\ pc = "rendered"
    /\ IsSome(printed)
    /\ Lowest(bids_heap).qty # Highest(bids_heap).qty
    /\ Lowest(asks_heap).qty # Highest(asks_heap).qty
    /\ Lowest(asks_heap).price # Lowest(bids_heap).price
    /\ Highest(asks_heap).price # Lowest(bids_heap).price

\* ----------------------------------------------------------------- C17
\* C17 as stated (removal preserves higher-priced levels): after an update
\* pair (p, q) with q < SIGMA on a side, every level of that side priced more
\* than SIGMA above p is still stored with its quantity; and when p is not
\* stored and is below every stored price of that side, the ledger is
\* unchanged.
C17_RemovalBelowAllLeavesLedger ==
    \A x \in Entry :
        x.qty < SIGMA =>
            /\ SoleBidPair(x) =>
                   /\ \A i \in DOMAIN Before.bids :
                          Before.bids[i].price - x.price > SIGMA =>
                              Holds(bids_heap, Before.bids[i].price, Before.bids[i].qty)
                   /\ (\A i \in DOMAIN Before.bids : Before.bids[i].price > x.price) =>
                          bids_heap = Before.bids
            /\ SoleAskPair(x) =>
                   /\ \A i \in DOMAIN Before.asks :
                          Before.asks[i].price - x.price > SIGMA =>
                              Holds(asks_heap, Before.asks[i].price, Before.asks[i].qty)
                   /\ (\A i \in DOMAIN Before.asks : Before.asks[i].price > x.price) =>
                          asks_heap = Before.asks

\* C17 amended: after an update pair (p, q) with q < SIGMA on a side, every
\* level of that side priced more than SIGMA above p is still stored with
\* its quantity; and when every stored price of that side is more than SIGMA
\* above p, the ledger is unchanged.
C17_RemovalKeepsLevelsBeyondSigma ==
    \A x \in Entry :
        x.qty < SIGMA =>
            /\ SoleBidPair(x) =>
                   /\ \A i \in DOMAIN Before.bids :
                          Before.bids[i].price - x.price > SIGMA =>
                              Holds(bids_heap, Before.bids[i].price, Before.bids[i].qty)
                   /\ (\A i \in DOMAIN Before.bids : Before.bids[i].price - x.price > SIGMA) =>
                          bids_heap = Before.bids
            /\ SoleAskPair(x) =>
                   /\ \A i \in DOMAIN Before.asks :
                          Before.asks[i].price - x.price > SIGMA =>
                              Holds(asks_heap, Before.asks[i].price, Before.asks[i].qty)
                   /\ (\A i \in DOMAIN Before.asks : Before.asks[i].price - x.price > SIGMA) =>
                          asks_heap = Before.asks

\* a removal took out the target and a level within SIGMA above it and kept
\* the level priced beyond
C17_Witness ==
    \E x \in Entry :
        /\ x.qty < SIGMA
        /\ SoleBidPair(x)
        /\ Len(Before.bids) = 3
        /\ Before.bids[1].price = x.price
        /\ bids_heap = <<Before.bids[3]>>

\* a removal at a price below a ledger whose prices are all beyond SIGMA
\* above it left the ledger as it was
C17_WitnessBelowAll ==
    \E x \in Entry :
        /\ x.qty < SIGMA
        /\ SoleAskPair(x)
        /\ Before.asks # <<>>
        /\ \A i \in DOMAIN Before.asks : Before.asks[i].price - x.price > SIGMA
        /\ asks_heap = Before.asks

\* ----------------------------------------------------------------- C18
\* the single-pair data payloads a side list stands for, in list order
BidSingles(side) ==
    IF IsSome(side)
    THEN [k \in DOMAIN Unwrap(side) |->
             <<[bids |-> Some(<<Unwrap(side)[k]>>), asks |-> None]>>]
    ELSE <<>>

AskSingles(side) ==
    IF IsSome(side)
    THEN [k \in DOMAIN Unwrap(side) |->
             <<[bids |-> None, asks |-> Some(<<Unwrap(side)[k]>>)]>>]
    ELSE <<>>

\* the pairs of a data payload as single-pair payloads: entries in list
\* order, within an entry the bid pairs and then the ask pairs
RECURSIVE Singles(_)
Singles(data) ==
    IF data = <<>> THEN <<>>
    ELSE BidSingles(Head(data).bids) \o AskSingles(Head(data).asks)
         \o Singles(Tail(data))

\* evaluate run on one update record after the other
RECURSIVE EvaluateEach(_, _)
EvaluateEach(book, payloads) ==
    IF payloads = <<>> THEN book
    ELSE EvaluateEach(EvaluateBook(book, UpdateRecord(Head(payloads))), Tail(payloads))

\* the current record is an update of one entry whose bid list is an upsert
\* followed by a removal and whose ask list is empty
UpsertThenRemoval ==
    /\ Applied
    /\ Msg.type_name = Some("update")
    /\ Len(Unwrap(Msg.data)) = 1
    /\ Unwrap(Msg.data)[1].asks = Some(<<>>)
    /\ IsSome(Unwrap(Msg.data)[1].bids)
    /\ Len(Unwrap(Unwrap(Msg.data)[1].bids)) = 2
    /\ Unwrap(Unwrap(Msg.data)[1].bids)[1].qty >= SIGMA
    /\ Unwrap(Unwrap(Msg.data)[1].bids)[2].qty < SIGMA

\* the two bid pairs of such a record
FirstPair == Unwrap(Unwrap(Msg.data)[1].bids)[1]
SecondPair == Unwrap(Unwrap(Msg.data)[1].bids)[2]

\* the ledgers the same record leaves with its two bid pairs exchanged
Exchanged ==
    EvaluateBook(Before,
        UpdateRecord(<<[bids |-> Some(<<SecondPair, FirstPair>>), asks |-> Some(<<>>)]>>))

\* C18 (sequential composition): an update record leaves the book that its
\* pairs leave when sent as single-pair update records one after the other,
\* entries in list order and bid pairs before ask pairs within an entry; and
\* for a record of an upsert and a removal on one side the order of the two
\* changes the result, namely whenever the upsert's price is not more than
\* SIGMA above the removal's price.
C18_SequentialComposition ==
    /\ (Applied /\ Msg.type_name = Some("update")) =>
           Book = EvaluateEach(Before, Singles(Unwrap(Msg.data)))
    /\ UpsertThenRemoval =>
           ((Exchanged # Book) <=> (FirstPair.price - SecondPair.price <= SIGMA))

\* an upsert followed by a removal in one bid list, applied to a populated
\* ledger, where the exchanged order leaves another book
C18_Witness ==
    /\ UpsertThenRemoval
    /\ FirstPair.price # SecondPair.price
    /\ Before.bids # <<>>
    /\ Exchanged # Book

\* a record of two entries with one ask pair each has been applied
C18_WitnessEntries ==
    /\ Applied
    /\ Len(Unwrap(Msg.data)) = 2
    /\ Len(Unwrap(Unwrap(Msg.data)[1].asks)) = 1
    /\ Len(Unwrap(Unwrap(Msg.data)[2].asks)) = 1
    /\ asks_heap # Before.asks

=============================================================================
